---- MODULE Spec2Model ----
(***************************************************************************)
(* Model of src/ai/models/porygon_model/predictor.py: the state encoder    *)
(* (make_input_matrix), the target encoder (make_actual_output_list) and   *)
(* the action decoder (predict_move) of the Porygon model.                 *)
(*                                                                         *)
(* Python lists are sequences; a Python index i is the sequence index     *)
(* i + 1.  A float is the record [n, d, e] standing for n / (d * 10^e),    *)
(* kept in lowest terms with d > 0, so that 1e-16 can be told from every   *)
(* ratio of small integers.                                                *)
(***************************************************************************)
EXTENDS Integers, Sequences, FiniteSets, TLC

VARIABLES
    player,        \* the focused player's party, as-is (battle) order
    other_player,  \* the other player's party, as-is order
    starting,      \* player.get_party().get_starting(): the active Pokemon
    node,          \* the search root handed to make_actual_output_list
    output,        \* model.predict(...) of the latest predict_move call
    mat,           \* what make_input_matrix returned (<<>>: not called yet)
    target,        \* what make_actual_output_list returned or raised
    take_turn,     \* the class attribute RandomModel.take_turn
    handlers,      \* per predict_move call that returned: the action its closure holds
    call,          \* the latest predict_move call: its locals, what it raised
    performed      \* per handler invocation: which handler, which callback it made

vars == <<player, other_player, starting, node, output, mat, target,
          take_turn, handlers, call, performed>>

-----------------------------------------------------------------------------
(* Configuration and module constants *)

POKEMON_MOVE_LIMIT == 4
POKEMON_PARTY_LIMIT == 6
OUTPUT_SIZE == 31

EPSILON == [n |-> 1, d |-> 1, e |-> 16]

-----------------------------------------------------------------------------
(* Bounds of the model *)

MaxId == 6          \* Pokemon identifiers are 1..MaxId
MaxRot == 1         \* as-is orders: the ascending order rotated by 0..MaxRot
BaseHP == 1         \* base hit points of every Pokemon
BasePP == 1         \* base power points of every move
MaxTargetId == 2    \* identifiers of the parties whose search roots are enumerated
MaxChildren == 3    \* children of an enumerated search root
MaxOutcome == 2     \* a root's outcome is 0..MaxOutcome
MaxChildOutcome == 1 \* a child's outcome is -1..MaxChildOutcome
MaxProb == 2        \* an entry of the model's output is 1..MaxProb
MaxCalls == 2       \* predict_move calls that return a handler
MaxTurns == 1       \* invocations of returned handlers

Ids == 1..MaxId

-----------------------------------------------------------------------------
(* Python arithmetic and list helpers *)

Abs(x) == IF x < 0 THEN -x ELSE x

RECURSIVE Gcd(_, _)
Gcd(a, b) == IF b = 0 THEN a ELSE Gcd(b, a % b)

\* a / b on numbers, b # 0 (Python raises ZeroDivisionError on b = 0; the
\* callers model that)
Div(a, b) ==
    LET g == Gcd(Abs(a), Abs(b))
        s == IF b < 0 THEN -1 ELSE 1
    IN  [n |-> (s * a) \div g, d |-> Abs(b) \div g, e |-> 0]

Range(s) == {s[i] : i \in 1..Len(s)}

\* [x] * k
Repeat(x, k) == [i \in 1..k |-> x]

\* s[a:b] for 0 <= a <= b: slices are cut at the end of the list
Slice(s, a, b) ==
    LET hi == IF b < Len(s) THEN b ELSE Len(s)
    IN  [i \in 1..(hi - a) |-> s[a + i]]

\* max(s), s not empty
Max(s) == CHOOSE x \in Range(s) : \A y \in Range(s) : y <= x

\* s.index(x): the first index (from 0) holding x
Index(s, x) == (CHOOSE i \in 1..Len(s) : s[i] = x /\ \A j \in 1..(i - 1) : s[j] # x) - 1

-----------------------------------------------------------------------------
(* Party, Pokemon, MoveBank, Move: the collaborators' read interface *)

\* Party.get_sorted_list(): the party by Pokemon identifier, ascending
RECURSIVE get_sorted_list(_)
get_sorted_list(party) ==
    IF party = <<>> THEN <<>>
    ELSE LET k == CHOOSE i \in 1..Len(party) :
                      \A j \in 1..Len(party) :
                          \/ party[i].id < party[j].id
                          \/ (party[i].id = party[j].id /\ i <= j)
             rest == [j \in 1..(Len(party) - 1) |->
                          IF j < k THEN party[j] ELSE party[j + 1]]
         IN  <<party[k]>> \o get_sorted_list(rest)

-----------------------------------------------------------------------------
(* make_input_matrix *)

\* fill_empty with rows as wide as the move limit, the HP entry forgotten
fill_empty_no_hp(num) ==
    [i \in 1..num |-> <<EPSILON, EPSILON, EPSILON, EPSILON>>]

\* fill_empty(num): num rows of five EPSILON
fill_empty(num) ==
    [i \in 1..num |-> <<EPSILON, EPSILON, EPSILON, EPSILON, EPSILON>>]

\* one iteration of fill_rows' loop: the row of one Pokemon
RowOf(pkmn) ==
    <<Div(pkmn.hp, pkmn.base_hp)>>
    \o [j \in 1..Len(pkmn.moves) |-> Div(pkmn.moves[j].pp, pkmn.moves[j].base_pp)]
    \o Repeat(EPSILON, POKEMON_MOVE_LIMIT - Len(pkmn.moves))

\* fill_rows(pokemon_list): one row per Pokemon, in the list's order
fill_rows(pokemon_list) ==
    [i \in 1..Len(pokemon_list) |-> RowOf(pokemon_list[i])]

make_input_matrix(p, o) ==
    LET player_pokemon == get_sorted_list(p)
        other_player_pokemon == get_sorted_list(o)
    IN  fill_rows(player_pokemon)
        \o fill_empty(POKEMON_PARTY_LIMIT - Len(player_pokemon))
        \o fill_rows(other_player_pokemon)
        \o fill_empty(POKEMON_PARTY_LIMIT - Len(other_player_pokemon))

-----------------------------------------------------------------------------
(* Inputs of the encoders *)

Move(pp) == [pp |-> pp, base_pp |-> BasePP]

\* A Pokemon at full health whose move bank holds id % 5 moves at full PP:
\* identifiers 1..6 give banks of 1, 2, 3, 4, 0 and 1 moves.
FreshPokemon(id) ==
    [id |-> id, hp |-> BaseHP, base_hp |-> BaseHP,
     moves |-> Repeat(Move(BasePP), id % (POKEMON_MOVE_LIMIT + 1))]

\* A Pokemon in battle: any HP in 0..base, a bank of k moves, the first
\* of them with any PP in 0..base.
BattlePokemon(id, hp, k, pp) ==
    [id |-> id, hp |-> hp, base_hp |-> BaseHP,
     moves |-> [j \in 1..k |-> IF j = 1 THEN Move(pp) ELSE Move(BasePP)]]

RECURSIVE Ascending(_)
Ascending(S) ==
    IF S = {} THEN <<>>
    ELSE LET m == CHOOSE x \in S : \A y \in S : x <= y
         IN  <<m>> \o Ascending(S \ {m})

Rotate(s, r) ==
    [i \in 1..Len(s) |-> s[((i - 1 + r) % Len(s)) + 1]]

\* The orders a party's identifiers are held in: every set of at most
\* POKEMON_PARTY_LIMIT identifiers, in ascending order rotated by 0..MaxRot.
IdOrders ==
    {Rotate(Ascending(S), r) :
        S \in {T \in SUBSET Ids : Cardinality(T) <= POKEMON_PARTY_LIMIT},
        r \in 0..MaxRot}

\* The focused parties: the first Pokemon in battle, the others fresh.
FocusedParties ==
    {[i \in 1..Len(o) |-> FreshPokemon(o[i])] : o \in IdOrders}
    \cup
    {[i \in 1..Len(o) |->
         IF i = 1 THEN BattlePokemon(o[1], hp, k, pp) ELSE FreshPokemon(o[i])] :
        o \in IdOrders \ {<<>>}, hp \in 0..BaseHP,
        k \in 0..POKEMON_MOVE_LIMIT, pp \in 0..BasePP}

\* The opposing parties: 0..POKEMON_PARTY_LIMIT fresh Pokemon, held in
\* descending order.
OpponentParties ==
    {[i \in 1..n |-> FreshPokemon(n + 1 - i)] : n \in 0..POKEMON_PARTY_LIMIT}

NoNode == [outcome |-> 0, children |-> <<>>]
NoTarget == [raised |-> "none", value |-> <<>>]
NoPokemon == FreshPokemon(0)

\* RandomModel.take_turn as the class defines it, before any predict_move
RandomTurn == [callback |-> "random", arg |-> 0]

NoCall == [current_pokemon_idx |-> -1, branch |-> "none",
           highest_move_idx |-> -1, raised |-> "none"]

-----------------------------------------------------------------------------
(* MonteCarloNode: the search root and its children *)

\* A child of the root is [action_type, idx, pkmn_id, outcome]: idx is the
\* one key of node.childrenMap[child.token][child.action_type] (the as-is
\* party slot a SWITCH goes to, the move slot an ATTACK uses) and pkmn_id
\* what child.detokenize_child() returns (the attacking Pokemon).
action_idx(root, child) == child.idx

detokenize_child(child) == child.pkmn_id

-----------------------------------------------------------------------------
(* make_actual_output_list *)

\* the loop over node.children that writes the SWITCH children into
\* switch_probs, in the children's order
RECURSIVE SwitchLoop(_, _, _)
SwitchLoop(switch_probs, root, children) ==
    IF children = <<>> THEN switch_probs
    ELSE LET child == Head(children)
         IN  IF child.action_type = "SWITCH"
             THEN SwitchLoop(
                      [switch_probs EXCEPT ![action_idx(root, child) + 1] =
                           Div(child.outcome, root.outcome)],
                      root, Tail(children))
             ELSE SwitchLoop(switch_probs, root, Tail(children))

\* list.sort(key=...) on the (switch_prob, Pokemon) tuples: stable, by
\* the Pokemon's identifier
RECURSIVE SortTuples(_)
SortTuples(tuples) ==
    IF tuples = <<>> THEN <<>>
    ELSE LET k == CHOOSE i \in 1..Len(tuples) :
                      \A j \in 1..Len(tuples) :
                          \/ tuples[i][2].id < tuples[j][2].id
                          \/ (tuples[i][2].id = tuples[j][2].id /\ i <= j)
             rest == [j \in 1..(Len(tuples) - 1) |->
                          IF j < k THEN tuples[j] ELSE tuples[j + 1]]
         IN  <<tuples[k]>> \o SortTuples(rest)

\* the switch segment: written in as-is order, sorted by identifier, padded
SwitchProbs(p, root) ==
    LET player_pokemon == p
        switch_probs == SwitchLoop(Repeat(EPSILON, Len(player_pokemon)),
                                   root, root.children)
        pokemon_switch_tuple ==
            [i \in 1..Len(switch_probs) |-> <<switch_probs[i], player_pokemon[i]>>]
        sorted == SortTuples(pokemon_switch_tuple)
    IN  [i \in 1..Len(sorted) |-> sorted[i][1]]
        \o Repeat(EPSILON, POKEMON_PARTY_LIMIT - Len(player_pokemon))

\* the loop over node.children that fills pkmn_id_to_move_prob_map, a
\* function from the identifiers seen so far to blocks of move probabilities
RECURSIVE AttackLoop(_, _, _)
AttackLoop(map, root, children) ==
    IF children = <<>> THEN map
    ELSE LET child == Head(children)
             move_idx == action_idx(root, child)
             pkmn_id == detokenize_child(child)
             block == IF pkmn_id \in DOMAIN map THEN map[pkmn_id]
                      ELSE Repeat(EPSILON, POKEMON_MOVE_LIMIT)
             written == [block EXCEPT ![move_idx + 1] =
                             Div(child.outcome, root.outcome)]
         IN  IF child.action_type = "ATTACK"
             THEN AttackLoop(
                      [k \in DOMAIN map \cup {pkmn_id} |->
                           IF k = pkmn_id THEN written ELSE map[k]],
                      root, Tail(children))
             ELSE AttackLoop(map, root, Tail(children))

\* the blocks of the sorted party's Pokemon, one after the other
RECURSIVE Flatten(_, _)
Flatten(map, pokemon_list) ==
    IF pokemon_list = <<>> THEN <<>>
    ELSE map[Head(pokemon_list).id] \o Flatten(map, Tail(pokemon_list))

\* What the call returns, or the exception it raises: the first division
\* by a root outcome of zero raises ZeroDivisionError (lines 88 and 109);
\* a party member without an ATTACK child raises KeyError (line 114).
make_actual_output_list(p, root) ==
    LET map == AttackLoop(<<>>, root, root.children)
        sorted_list == get_sorted_list(p)
    IN  IF /\ root.outcome = 0
           /\ \E i \in 1..Len(root.children) :
                  root.children[i].action_type \in {"SWITCH", "ATTACK"}
        THEN [raised |-> "ZeroDivisionError", value |-> <<>>]
        ELSE IF \E i \in 1..Len(sorted_list) : sorted_list[i].id \notin DOMAIN map
        THEN [raised |-> "KeyError", value |-> <<>>]
        ELSE [raised |-> "none",
              value |-> SwitchProbs(p, root)
                        \o Flatten(map, sorted_list)
                        \o <<Div(root.outcome, 1)>>]

-----------------------------------------------------------------------------
(* The state encoder applied to every input *)

InitEncode ==
    /\ player \in FocusedParties
    /\ other_player \in OpponentParties
    /\ starting = NoPokemon
    /\ node = NoNode
    /\ output = <<>>
    /\ mat = <<>>
    /\ target = NoTarget
    /\ take_turn = RandomTurn
    /\ handlers = <<>>
    /\ call = NoCall
    /\ performed = <<>>

EncodeState ==
    /\ mat = <<>>
    /\ mat' = make_input_matrix(player, other_player)
    /\ UNCHANGED <<player, other_player, starting, node, output, target,
                   take_turn, handlers, call, performed>>

NextEncode == EncodeState

SpecEncode == InitEncode /\ [][NextEncode]_vars

-----------------------------------------------------------------------------
(* Properties of the state encoder *)

\* v is the float a / b
IsRatio(v, a, b) == v.e = 0 /\ v.n * b = a * v.d

\* the number of party members whose identifier is below pkmn's
Rank(party, pkmn) ==
    Cardinality({i \in 1..Len(party) : party[i].id < pkmn.id})

\* row r of m is pkmn's: HP ratio, PP ratios in bank order, EPSILON after
IsRowOf(m, r, pkmn) ==
    /\ IsRatio(m[r][1], pkmn.hp, pkmn.base_hp)
    /\ \A j \in 1..POKEMON_MOVE_LIMIT :
           IF j <= Len(pkmn.moves)
           THEN IsRatio(m[r][j + 1], pkmn.moves[j].pp, pkmn.moves[j].base_pp)
           ELSE m[r][j + 1] = EPSILON

\* rows first+1 .. first+POKEMON_PARTY_LIMIT of m hold party in ascending
\* identifier order, then all-EPSILON rows
HoldsParty(m, first, party) ==
    /\ \A i \in 1..Len(party) :
           IsRowOf(m, first + Rank(party, party[i]) + 1, party[i])
    /\ \A r \in (Len(party) + 1)..POKEMON_PARTY_LIMIT :
           \A c \in 1..(1 + POKEMON_MOVE_LIMIT) : m[first + r][c] = EPSILON

\* C1: make_input_matrix returns exactly 2 * POKEMON_PARTY_LIMIT rows of
\* exactly 1 + POKEMON_MOVE_LIMIT entries each; the first rows are the
\* focused party in ascending identifier order, the rows after them up to
\* row POKEMON_PARTY_LIMIT - 1 are all EPSILON, and the opponent's rows
\* start at row POKEMON_PARTY_LIMIT.
C1_MatrixShape ==
    mat # <<>> =>
        /\ Len(mat) = 2 * POKEMON_PARTY_LIMIT
        /\ \A r \in 1..Len(mat) : Len(mat[r]) = 1 + POKEMON_MOVE_LIMIT
        /\ HoldsParty(mat, 0, player)
        /\ HoldsParty(mat, POKEMON_PARTY_LIMIT, other_player)

\* a party of two held in descending identifier order, the first with one
\* move, against a full opposing party, has been encoded
C1_Witness ==
    /\ mat # <<>>
    /\ Len(player) = 2
    /\ player[1].id > player[2].id
    /\ Len(player[1].moves) = 1
    /\ Len(other_player) = POKEMON_PARTY_LIMIT
    /\ IsRowOf(mat, 2, player[1])
    /\ mat[3] = <<EPSILON, EPSILON, EPSILON, EPSILON, EPSILON>>

\* C7: no entry of the matrix make_input_matrix returns is exactly zero.
C7_NoZeroEntry ==
    \A r \in 1..Len(mat) : \A c \in 1..Len(mat[r]) : mat[r][c].n # 0

-----------------------------------------------------------------------------
(* Inputs of the target encoder *)

FullBankPokemon(id) == BattlePokemon(id, BaseHP, POKEMON_MOVE_LIMIT, BasePP)

Child(type, idx, pkmn_id, outcome) ==
    [action_type |-> type, idx |-> idx, pkmn_id |-> pkmn_id, outcome |-> outcome]

\* The candidate actions at a decision point of party p, as <<type, idx,
\* pkmn_id>>: a SWITCH to each as-is slot, an ATTACK with each move of
\* each Pokemon.
Actions(p) ==
    {<<"SWITCH", i - 1, p[i].id>> : i \in 1..Len(p)}
    \cup
    UNION {{<<"ATTACK", m - 1, p[i].id>> : m \in 1..Len(p[i].moves)} :
              i \in 1..Len(p)}

\* Every list of at most k children for distinct actions, in every order,
\* with every outcome.
RECURSIVE ChildLists(_, _)
ChildLists(actions, k) ==
    IF k = 0 THEN {<<>>}
    ELSE {<<>>} \cup
         UNION {{<<Child(a[1], a[2], a[3], o)>> \o rest :
                    o \in (-1)..MaxChildOutcome,
                    rest \in ChildLists(actions \ {a}, k - 1)} :
                a \in actions}

\* A root where every party member has an ATTACK child (its first move),
\* and at most one SWITCH child, to slot s (s = 0: none).
CompleteRoot(p, s, outcome) ==
    [outcome |-> outcome,
     children |->
         [i \in 1..Len(p) |-> Child("ATTACK", 0, p[i].id, 1)]
         \o (IF s = 0 THEN <<>> ELSE <<Child("SWITCH", s - 1, p[s].id, 1)>>)]

SmallParties ==
    {[i \in 1..Len(o) |-> FullBankPokemon(o[i])] :
        o \in {x \in IdOrders : Range(x) \subseteq 1..MaxTargetId}}

AnyParties ==
    {[i \in 1..Len(o) |-> FullBankPokemon(o[i])] : o \in IdOrders}

Roots(p) ==
    IF p \in SmallParties
    THEN {[outcome |-> w, children |-> c] :
             w \in 0..MaxOutcome, c \in ChildLists(Actions(p), MaxChildren)}
    ELSE {CompleteRoot(p, s, w) : s \in 0..Len(p), w \in 1..MaxOutcome}

-----------------------------------------------------------------------------
(* The target encoder applied to every input *)

InitTarget ==
    /\ player \in AnyParties
    /\ node \in Roots(player)
    /\ other_player = <<>>
    /\ starting = NoPokemon
    /\ output = <<>>
    /\ mat = <<>>
    /\ target = NoTarget
    /\ take_turn = RandomTurn
    /\ handlers = <<>>
    /\ call = NoCall
    /\ performed = <<>>

EncodeTarget ==
    /\ target = NoTarget
    /\ target' = make_actual_output_list(player, node)
    /\ UNCHANGED <<player, other_player, starting, node, output, mat,
                   take_turn, handlers, call, performed>>

NextTarget == EncodeTarget

SpecTarget == InitTarget /\ [][NextTarget]_vars

-----------------------------------------------------------------------------
(* Properties of the target encoder *)

TargetLength ==
    POKEMON_PARTY_LIMIT + POKEMON_PARTY_LIMIT * POKEMON_MOVE_LIMIT + 1

\* the party member with identifier id
Member(party, id) == party[CHOOSE i \in 1..Len(party) : party[i].id = id]

\* the index (from 0) in the target vector that child c of the root stands at
IndexOf(party, c) ==
    IF c.action_type = "SWITCH"
    THEN Rank(party, party[c.idx + 1])
    ELSE POKEMON_PARTY_LIMIT
         + Rank(party, Member(party, c.pkmn_id)) * POKEMON_MOVE_LIMIT + c.idx

\* C2: make_actual_output_list returns a vector of length exactly
\* POKEMON_PARTY_LIMIT + POKEMON_PARTY_LIMIT * POKEMON_MOVE_LIMIT + 1 for
\* every party of 0..POKEMON_PARTY_LIMIT Pokemon and every set of children,
\* also when party members have no ATTACK child.
C2_TargetLength ==
    (target # NoTarget /\ node.outcome # 0) =>
        /\ target.raised = "none"
        /\ Len(target.value) = TargetLength

\* C3: every SWITCH child's ratio stands at the sorted position of its
\* target Pokemon, every ATTACK child's ratio at POKEMON_PARTY_LIMIT +
\* p * POKEMON_MOVE_LIMIT + m, and every other index before the last holds
\* EPSILON, whatever the party's as-is order and the children's order.
C3_Alignment ==
    (target # NoTarget /\ node.outcome # 0 /\ node.children # <<>>) =>
        /\ target.raised = "none"
        /\ \A i \in 1..Len(node.children) :
               IsRatio(target.value[IndexOf(player, node.children[i]) + 1],
                       node.children[i].outcome, node.outcome)
        /\ \A j \in 1..(Len(target.value) - 1) :
               (\A i \in 1..Len(node.children) :
                    IndexOf(player, node.children[i]) + 1 # j)
               => target.value[j] = EPSILON

\* C6: every entry of the returned vector except the trailing outcome is
\* strictly positive.
C6_EpsilonFloor ==
    target.raised = "none" =>
        \A j \in 1..(Len(target.value) - 1) : target.value[j].n > 0

\* C8: on a root whose outcome is exactly zero, make_actual_output_list
\* raises no division fault: it returns a full-length vector whose switch
\* and move entries are all EPSILON.
C8_ZeroRootGuard ==
    (target # NoTarget /\ node.outcome = 0 /\ node.children # <<>>) =>
        /\ target.raised = "none"
        /\ Len(target.value) = TargetLength
        /\ \A j \in 1..(Len(target.value) - 1) : target.value[j] = EPSILON

\* what the code does do: whenever the call returns, the vector is aligned
\* as C3 says, and its length is POKEMON_PARTY_LIMIT + the party's size *
\* POKEMON_MOVE_LIMIT + 1
AlignedWhenReturned ==
    (target # NoTarget /\ target.raised = "none") =>
        /\ Len(target.value) =
               POKEMON_PARTY_LIMIT + Len(player) * POKEMON_MOVE_LIMIT + 1
        /\ \A i \in 1..Len(node.children) :
               IsRatio(target.value[IndexOf(player, node.children[i]) + 1],
                       node.children[i].outcome, node.outcome)
        /\ \A j \in 1..(Len(target.value) - 1) :
               (\A i \in 1..Len(node.children) :
                    IndexOf(player, node.children[i]) + 1 # j)
               => target.value[j] = EPSILON

-----------------------------------------------------------------------------
(* predict_move *)

\* lines 181-186: the index of the active Pokemon in the sorted party, -1
\* when no member has its identifier
CurrentPokemonIdx(sorted_list, current_pokemon_id) ==
    LET found == {i \in 1..Len(sorted_list) : sorted_list[i].id = current_pokemon_id}
    IN  IF found = {} THEN -1
        ELSE (CHOOSE i \in found : \A j \in found : i <= j) - 1

\* lines 189-193: the active Pokemon's block of move probabilities
MoveProbs(out, current_pokemon_idx) ==
    LET start_idx == POKEMON_PARTY_LIMIT + current_pokemon_idx * POKEMON_MOVE_LIMIT
    IN  IF current_pokemon_idx >= 0
        THEN Slice(out, start_idx, start_idx + POKEMON_MOVE_LIMIT)
        ELSE <<>>

\* lines 202-222: the branch taken on the two maxima and the closure made
Branch(locals, move_probs, switch_probs, highest_move_prob, highest_switch_prob, bank) ==
    IF highest_move_prob >= highest_switch_prob
    THEN LET highest_move_idx == Index(move_probs, highest_move_prob)
         IN  IF highest_move_idx >= Len(bank)
             THEN [locals |-> [locals EXCEPT !.branch = "attack",
                                             !.highest_move_idx = highest_move_idx,
                                             !.raised = "IndexError"],
                   closure |-> RandomTurn]
             ELSE [locals |-> [locals EXCEPT !.branch = "attack",
                                             !.highest_move_idx = highest_move_idx],
                   closure |-> [callback |-> "do_move", arg |-> highest_move_idx]]
    ELSE [locals |-> [locals EXCEPT !.branch = "switch"],
          closure |-> [callback |-> "switch_pokemon",
                       arg |-> Index(switch_probs, highest_switch_prob)]]

\* lines 195-197: max() of an empty list raises ValueError
Maxima(locals, move_probs, switch_probs, bank) ==
    IF move_probs = <<>> \/ switch_probs = <<>>
    THEN [locals |-> [locals EXCEPT !.raised = "ValueError"], closure |-> RandomTurn]
    ELSE Branch(locals, move_probs, switch_probs,
                Max(move_probs), Max(switch_probs), bank)

\* The locals of one call on the model's output out: the sorted index of
\* the active Pokemon, the branch taken, the exception raised (max() of an
\* empty list: ValueError, line 196; a move index past the bank:
\* IndexError, line 204) and the take_turn closure the call makes.
Locate(out, start, current_pokemon_idx) ==
    Maxima([current_pokemon_idx |-> current_pokemon_idx, branch |-> "none",
            highest_move_idx |-> -1, raised |-> "none"],
           MoveProbs(out, current_pokemon_idx),
           Slice(out, 0, POKEMON_PARTY_LIMIT),
           start.moves)

predict_move(out, p, start) ==
    Locate(out, start, CurrentPokemonIdx(get_sorted_list(p), start.id))

-----------------------------------------------------------------------------
(* The decoder and the handlers it returns *)

\* What model.predict may return: OUTPUT_SIZE entries, all 1 but for at
\* most one of the switch segment and one of the rest.
Outputs ==
    {[i \in 1..OUTPUT_SIZE |-> IF i = s THEN vs ELSE IF i = m THEN vm ELSE 1] :
        s \in 1..POKEMON_PARTY_LIMIT, vs \in 1..MaxProb,
        m \in (POKEMON_PARTY_LIMIT + 1)..OUTPUT_SIZE, vm \in 1..MaxProb}

\* The parties at a decision point: none, one, two or POKEMON_PARTY_LIMIT
\* fresh Pokemon, held in descending order.
DecodeParties ==
    {[i \in 1..n |-> FreshPokemon(n + 1 - i)] : n \in {0, 1, 2, POKEMON_PARTY_LIMIT}}

Init ==
    /\ player \in DecodeParties
    /\ other_player = <<FreshPokemon(1)>>
    /\ starting \in Range(player) \cup {NoPokemon}
    /\ node = NoNode
    /\ output = <<>>
    /\ mat = <<>>
    /\ target = NoTarget
    /\ take_turn = RandomTurn
    /\ handlers = <<>>
    /\ call = NoCall
    /\ performed = <<>>

\* predict_move(model, player, other_player) with model.predict returning
\* out (input_matrix is a local that only model.predict reads): on an
\* exception nothing is assigned and nothing returned; otherwise the
\* closure is stored in the class attribute RandomModel.take_turn and the
\* class itself is returned.
Return(out, r) ==
    /\ output' = out
    /\ call' = r.locals
    /\ IF r.locals.raised = "none"
       THEN /\ take_turn' = r.closure
            /\ handlers' = Append(handlers, r.closure)
       ELSE UNCHANGED <<take_turn, handlers>>
    /\ UNCHANGED <<player, other_player, starting, node, mat, target, performed>>

Predict(out) ==
    /\ Len(handlers) < MaxCalls
    /\ Return(out, predict_move(out, player, starting))

\* The game invokes the handler the h-th call returned: every handler is
\* the class RandomModel, so what runs is the class attribute as it is now.
TakeTurn(h) ==
    /\ Len(performed) < MaxTurns
    /\ performed' = Append(performed, [handler |-> h, action |-> take_turn])
    /\ UNCHANGED <<player, other_player, starting, node, output, mat, target,
                   take_turn, handlers, call>>

Next ==
    \/ \E out \in Outputs : Predict(out)
    \/ \E h \in 1..Len(handlers) : TakeTurn(h)

Spec == Init /\ [][Next]_vars

-----------------------------------------------------------------------------
(* Properties of the decoder *)

\* the active Pokemon is a member of the party
Located == \E i \in 1..Len(player) : player[i].id = starting.id

\* M: the active Pokemon's block of the latest output; S: its switch segment
MoveBlock ==
    [j \in 1..POKEMON_MOVE_LIMIT |->
        output[POKEMON_PARTY_LIMIT + Rank(player, starting) * POKEMON_MOVE_LIMIT + j]]

SwitchBlock == [j \in 1..POKEMON_PARTY_LIMIT |-> output[j]]

\* the closure invokes do_move with the active Pokemon's move at an index
\* where M is largest
AttacksWithBestMove ==
    /\ take_turn.callback = "do_move"
    /\ take_turn.arg + 1 \in 1..Len(starting.moves)
    /\ MoveBlock[take_turn.arg + 1] = Max(MoveBlock)

\* the closure invokes switch_pokemon with the sorted index where S is largest
SwitchesToBestSlot ==
    /\ take_turn.callback = "switch_pokemon"
    /\ SwitchBlock[take_turn.arg + 1] = Max(SwitchBlock)

\* C4: the decision attacks with the active Pokemon's move at the index of
\* max(M) whenever max(M) >= max(S), and otherwise switches to the sorted
\* index of max(S).
C4_DecisionRule ==
    (output # <<>> /\ Located) =>
        /\ call.raised = "none"
        /\ IF Max(MoveBlock) >= Max(SwitchBlock)
           THEN AttacksWithBestMove
           ELSE SwitchesToBestSlot

\* C5: every decision makes exactly one callback, do_move or
\* switch_pokemon; when the active Pokemon is not found in the sorted party
\* the decision is the switch branch's, not a failure.
C5_ExactlyOneCallback ==
    /\ \A k \in 1..Len(performed) :
           performed[k].action.callback \in {"do_move", "switch_pokemon"}
    /\ (output # <<>> /\ ~Located) =>
           /\ call.raised = "none"
           /\ call.branch = "switch"
           /\ SwitchesToBestSlot

\* C9: the action a returned handler performs is the action its own call
\* decided, whatever other calls were made before or after it.
C9_HandlersIndependent ==
    \A k \in 1..Len(performed) :
        performed[k].action = handlers[performed[k].handler]

\* C10: on the attack branch the index of the largest entry of the active
\* Pokemon's block is an index of its move bank, for every bank of
\* 1..POKEMON_MOVE_LIMIT moves.
C10_MoveIndexValid ==
    (call.branch = "attack" /\ Len(starting.moves) >= 1) =>
        call.highest_move_idx \in 0..(Len(starting.moves) - 1)

\* what the code does do: a call that returns has decided as C4 says
DecisionRuleWhenReturned ==
    (output # <<>> /\ call.raised = "none") =>
        /\ Located
        /\ IF Max(MoveBlock) >= Max(SwitchBlock)
           THEN AttacksWithBestMove /\ call.branch = "attack"
           ELSE SwitchesToBestSlot /\ call.branch = "switch"

====
